---- MODULE Spec2Model ----
(***************************************************************************)
(* Industrial-Docs-RAG-Chatbot: ingestion (src/ingest.py,                  *)
(* scripts/build_index.py), the vector retriever (src/retriever.py) and    *)
(* the HTTP layer (src/api/app.py) as one state machine.                   *)
(*                                                                         *)
(* Texts are sequences of one-character strings.  An embedding vector is a *)
(* pair of integers, the index is the sequence of its rows in insertion    *)
(* order (row id i is Python row i, TLA+ position i + 1), a score is the   *)
(* inner product of the query vector and a row.                            *)
(***************************************************************************)
EXTENDS Integers, Sequences, FiniteSets, TLC

\* ------------------------------------------------------------------------
\* Bounds of the model
\* ------------------------------------------------------------------------

\* top_k of a request ranges over -1 .. MaxTopK
MaxTopK == 2

\* the texts handed to the chunkers have at most MaxTextLen characters
MaxTextLen == 6

\* the strings handed to the hash-bucket encoder have at most MaxEncodedLen
\* characters, and its rows have HashDim buckets
MaxEncodedLen == 3
HashDim == 3

\* the window loop of simple_chunk_text is followed for at most MaxWindows
\* windows, more than a text of the model has characters
MaxWindows == 8

\* ------------------------------------------------------------------------
\* Values
\* ------------------------------------------------------------------------

\* Python's None
None == "None"

\* a text file that does not exist (no text is equal to it: the elements of
\* a text are single characters)
NoFile == <<"NoFile">>

\* a file that exists and cannot be read (a directory, no permission)
Unreadable == <<"Unreadable">>

\* an index or metadata file that does not exist, and one holding `rows`
Missing == [exists |-> FALSE, rows |-> <<>>]
FileOf(rows) == [exists |-> TRUE, rows |-> rows]

\* str.strip() removes these
Whitespace == {" ", "\n", "\r", "\t"}

Min(a, b) == IF a <= b THEN a ELSE b
Max(a, b) == IF a >= b THEN a ELSE b

\* ------------------------------------------------------------------------
\* Python string helpers, as the chunkers use them
\* ------------------------------------------------------------------------

\* text.replace("\r\n", "\n")
RECURSIVE ReplaceCRLF(_)
ReplaceCRLF(s) ==
    IF Len(s) = 0 THEN <<>>
    ELSE IF Len(s) >= 2 /\ s[1] = "\r" /\ s[2] = "\n"
         THEN <<"\n">> \o ReplaceCRLF(SubSeq(s, 3, Len(s)))
         ELSE <<s[1]>> \o ReplaceCRLF(Tail(s))

\* text.split("\n\n"): leftmost non-overlapping separators; "" gives [""]
RECURSIVE SplitBlankLines(_)
SplitBlankLines(s) ==
    LET hits == {i \in 1..(Len(s) - 1) : s[i] = "\n" /\ s[i + 1] = "\n"}
    IN  IF hits = {} THEN <<s>>
        ELSE LET i == CHOOSE j \in hits : \A h \in hits : j <= h
             IN  <<SubSeq(s, 1, i - 1)>> \o SplitBlankLines(SubSeq(s, i + 2, Len(s)))

\* str.strip()
Strip(s) ==
    LET keep == {i \in 1..Len(s) : s[i] \notin Whitespace}
    IN  IF keep = {} THEN <<>>
        ELSE LET lo == CHOOSE i \in keep : \A j \in keep : i <= j
                 hi == CHOOSE i \in keep : \A j \in keep : j <= i
             IN  SubSeq(s, lo, hi)

\* "\n\n".join(parts)
RECURSIVE JoinBlankLines(_)
JoinBlankLines(parts) ==
    IF Len(parts) = 0 THEN <<>>
    ELSE IF Len(parts) = 1 THEN parts[1]
    ELSE parts[1] \o <<"\n", "\n">> \o JoinBlankLines(Tail(parts))

\* s[-n:] for 0 < n < len(s)
LastChars(s, n) == SubSeq(s, Len(s) - n + 1, Len(s))

\* s[start:end] with 0-based bounds: a negative bound counts from the end,
\* and bounds outside the string are clipped
PySlice(s, start, end) ==
    LET n == Len(s)
        clip(i) == IF i < 0 THEN Max(i + n, 0) ELSE Min(i, n)
    IN  SubSeq(s, clip(start) + 1, clip(end))

\* ------------------------------------------------------------------------
\* src/ingest.py: split_into_chunks
\* ------------------------------------------------------------------------

\* default max_chars and overlap_chars of split_into_chunks
DefaultMaxChars == 1000
DefaultOverlapChars == 200

\* Paragraphs without the filter of line 116
ParagraphsUnfiltered(text) ==
    LET parts == SplitBlankLines(ReplaceCRLF(text))
    IN  [i \in 1..Len(parts) |-> Strip(parts[i])]

\* lines 115-116: the stripped, non-empty paragraphs
Paragraphs(text) ==
    LET parts == SplitBlankLines(ReplaceCRLF(text))
        stripped == [i \in 1..Len(parts) |-> Strip(parts[i])]
    IN  SelectSeq(stripped, LAMBDA p : p # <<>>)

\* lines 122-140: the loop over the paragraphs from position i on
RECURSIVE PackParagraphs(_, _, _, _, _, _, _)
PackParagraphs(paragraphs, i, chunks, current, current_len, max_chars, overlap_chars) ==
    IF i > Len(paragraphs)
    THEN IF current # <<>> THEN Append(chunks, JoinBlankLines(current)) ELSE chunks
    ELSE
      LET p == paragraphs[i]
          p_len == Len(p) + 2
      IN  IF current # <<>> /\ current_len + p_len > max_chars
          THEN LET chunk_text == JoinBlankLines(current)
                   seeded == overlap_chars > 0 /\ Len(chunk_text) > overlap_chars
                   overlap == LastChars(chunk_text, overlap_chars)
               IN  IF seeded
                   THEN PackParagraphs(paragraphs, i + 1, Append(chunks, chunk_text),
                                       <<overlap, p>>, Len(overlap) + p_len,
                                       max_chars, overlap_chars)
                   ELSE PackParagraphs(paragraphs, i + 1, Append(chunks, chunk_text),
                                       <<p>>, p_len, max_chars, overlap_chars)
          ELSE PackParagraphs(paragraphs, i + 1, chunks, Append(current, p),
                              current_len + p_len, max_chars, overlap_chars)

split_into_chunks(text, max_chars, overlap_chars) ==
    PackParagraphs(Paragraphs(text), 1, <<>>, <<>>, 0, max_chars, overlap_chars)

\* ------------------------------------------------------------------------
\* scripts/build_index.py: simple_chunk_text
\* ------------------------------------------------------------------------

\* lines 73-80: the window loop from `start` (0-based) on; the callers of
\* this model pass 0 <= overlap < max_chars
RECURSIVE WindowLoop(_, _, _, _, _)
WindowLoop(cleaned, start, chunks, max_chars, overlap) ==
    LET n == Len(cleaned) IN
    IF ~(start < n) THEN chunks
    ELSE LET end == Min(start + max_chars, n)
             chunk == Strip(SubSeq(cleaned, start + 1, end))
             chunks2 == IF chunk # <<>> THEN Append(chunks, chunk) ELSE chunks
         IN  IF end >= n THEN chunks2
             ELSE WindowLoop(cleaned, end - overlap, chunks2, max_chars, overlap)

simple_chunk_text(text, max_chars, overlap) ==
    WindowLoop(ReplaceCRLF(text), 0, <<>>, max_chars, overlap)

\* ------------------------------------------------------------------------
\* Inputs
\* ------------------------------------------------------------------------

\* the files that may lie under the raw-documents directory
FileNames == {"a.txt", "b.md"}

\* the contents a file may have (a blank file, files of one and two words),
\* or NoFile
CorpusTexts(f) ==
    IF f = "a.txt" THEN {NoFile, <<" ">>, <<"x", " ", "y">>}
    ELSE {NoFile, <<"y">>}

\* query strings
Queries == {<<"x">>, <<"y">>}

\* top_k of a request: None (the CLI flag is absent), or an integer
TopKs == {[none |-> TRUE, val |-> 0]} \cup {[none |-> FALSE, val |-> v] : v \in -1 .. MaxTopK}

\* (max_chars, overlap) pairs scripts/build_index.py is started with:
\* its defaults, and one-word windows
BuildParams == {<<800, 100>>, <<2, 1>>}

\* Path(name).stem: the last component of the path without its suffix
Stem(name) == IF name = "b.md" THEN "b" ELSE "a"

\* ------------------------------------------------------------------------
\* State
\* ------------------------------------------------------------------------

VARIABLES
    rawDir,      \* file name -> text of the file, or NoFile
    indexFile,   \* faiss_index.bin: Missing, or FileOf(its rows)
    metaFile,    \* metadata.jsonl: Missing, or FileOf(its records)
    ing,         \* the ingestion job: its position and its local variables
    out,         \* what the step just taken returned to its caller
    _retriever,  \* src/api/app.py: the cached retriever (id 0 is None)
    _app_config, \* src/api/app.py: the cached application config
    thr,         \* the requests the API's worker threads are serving
    made,        \* how many retrievers the API process has constructed
    handed       \* the ids of the retrievers get_retriever has returned

vars == <<rawDir, indexFile, metaFile, ing, out, _retriever, _app_config, thr, made,
          handed>>

apiVars == <<_retriever, _app_config, thr, made, handed>>

\* ------------------------------------------------------------------------
\* Embedding and index
\* ------------------------------------------------------------------------

Count(s, c) == Cardinality({i \in 1..Len(s) : s[i] = c})

\* the embedding model: one row per text, a function of the text's value
EmbedModel(text) == <<Count(text, "x"), Count(text, "y")>>

\* IndexFlatIP: the score of a row is its inner product with the query
Dot(u, v) == u[1] * v[1] + u[2] * v[2]

\* src/ingest.py lines 198-207
embed_chunks(chunks) == [i \in 1..Len(chunks) |-> EmbedModel(chunks[i].text)]

\* ------------------------------------------------------------------------
\* src/ingest.py: build_chunks_for_corpus, save_index_and_metadata
\* ------------------------------------------------------------------------

\* the orders in which rglob may yield the files of the directory
FileOrders ==
    LET present == {f \in DOMAIN rawDir : rawDir[f] # NoFile}
    IN  {o \in [1..Cardinality(present) -> present] :
            \A i, j \in DOMAIN o : i # j => o[i] # o[j]}

\* lines 166-170: the chunks of one file
ChunksOfFile(doc_id, text) ==
    LET chunks == split_into_chunks(text, DefaultMaxChars, DefaultOverlapChars)
    IN  [idx \in 1..Len(chunks) |->
            [doc_id |-> doc_id, chunk_id |-> idx - 1, text |-> chunks[idx]]]

\* lines 159-172, for the files in the order `order`
RECURSIVE build_chunks_for_corpus(_)
build_chunks_for_corpus(order) ==
    IF Len(order) = 0 THEN <<>>
    ELSE ChunksOfFile(order[1], rawDir[order[1]])
            \o build_chunks_for_corpus(Tail(order))

\* IngestMetadata with row ids counted from 1
IngestMetadataFromOne(chunks) ==
    [i \in 1..Len(chunks) |->
        [row_id |-> i, doc_id |-> chunks[i].doc_id, chunk_id |-> chunks[i].chunk_id]]

\* lines 250-258: the records of metadata.jsonl
IngestMetadata(chunks) ==
    [i \in 1..Len(chunks) |->
        [row_id |-> i - 1, doc_id |-> chunks[i].doc_id, chunk_id |-> chunks[i].chunk_id]]

\* ------------------------------------------------------------------------
\* scripts/build_index.py: build_index_from_dir
\* ------------------------------------------------------------------------

\* lines 115-128: the records of one file
DocsMetaOfFile(name, text, max_chars, overlap) ==
    LET chunks == simple_chunk_text(text, max_chars, overlap)
    IN  [idx \in 1..Len(chunks) |->
            [doc_id |-> Stem(name), chunk_id |-> idx - 1,
             source_path |-> name, text |-> chunks[idx]]]

\* lines 108-128, for the files in the order `order`
RECURSIVE CollectDocsMeta(_, _, _)
CollectDocsMeta(order, max_chars, overlap) ==
    IF Len(order) = 0 THEN <<>>
    ELSE DocsMetaOfFile(order[1], rawDir[order[1]], max_chars, overlap)
            \o CollectDocsMeta(Tail(order), max_chars, overlap)

\* retriever.encode_texts(texts): one row per text
encode_texts(texts) == [i \in 1..Len(texts) |-> EmbedModel(texts[i])]

\* ------------------------------------------------------------------------
\* The ingestion job
\* ------------------------------------------------------------------------

IdleJob == [pc |-> "idle", script |-> None, chunks |-> <<>>, vectors |-> <<>>,
            meta |-> <<>>]

\* a step that returns nothing
NoOutput == [op |-> "none"]

\* positions at which a run is over
RunOver == {"idle", "done", "no_chunks", "interrupted"}

\* run_ingestion without the early return of lines 290-292: an empty corpus
\* overwrites the index with an empty one
run_ingestion_overwrites ==
    /\ ing.pc \in RunOver
    /\ \E order \in FileOrders :
        LET chunks == build_chunks_for_corpus(order)
        IN  /\ ing' = IF chunks = <<>>
                      THEN [IdleJob EXCEPT !.pc = "no_chunks", !.script = "ingest"]
                      ELSE [pc |-> "built", script |-> "ingest", chunks |-> chunks,
                            vectors |-> embed_chunks(chunks),
                            meta |-> IngestMetadata(chunks)]
            /\ indexFile' = IF chunks = <<>> THEN FileOf(<<>>) ELSE indexFile
    /\ UNCHANGED <<rawDir, metaFile>>
    /\ out' = NoOutput
    /\ UNCHANGED apiVars

\* src/ingest.py lines 279-304: run_ingestion up to the built index
run_ingestion ==
    /\ ing.pc \in RunOver
    /\ \E order \in FileOrders :
        LET chunks == build_chunks_for_corpus(order)
        IN  ing' = IF chunks = <<>>
                   THEN [IdleJob EXCEPT !.pc = "no_chunks", !.script = "ingest"]
                   ELSE [pc |-> "built", script |-> "ingest", chunks |-> chunks,
                         vectors |-> embed_chunks(chunks),
                         meta |-> IngestMetadata(chunks)]
    /\ UNCHANGED <<rawDir, indexFile, metaFile>>
    /\ out' = NoOutput
    /\ UNCHANGED apiVars

\* scripts/build_index.py lines 107-149: build_index_from_dir up to the
\* built index
build_index_from_dir ==
    /\ ing.pc \in RunOver
    /\ \E order \in FileOrders, params \in BuildParams :
        LET docs_meta == CollectDocsMeta(order, params[1], params[2])
            texts == [i \in 1..Len(docs_meta) |-> docs_meta[i].text]
        IN  ing' = IF texts = <<>>
                   THEN [IdleJob EXCEPT !.pc = "no_chunks", !.script = "build_index"]
                   ELSE [pc |-> "built", script |-> "build_index",
                         chunks |-> docs_meta, vectors |-> encode_texts(texts),
                         meta |-> docs_meta]
    /\ UNCHANGED <<rawDir, indexFile, metaFile>>
    /\ out' = NoOutput
    /\ UNCHANGED apiVars

\* src/ingest.py line 247, scripts/build_index.py line 156
WriteIndexFile ==
    /\ ing.pc = "built"
    /\ indexFile' = FileOf(ing.vectors)
    /\ ing' = [ing EXCEPT !.pc = "index_written"]
    /\ UNCHANGED <<rawDir, metaFile>>
    /\ out' = NoOutput
    /\ UNCHANGED apiVars

\* src/ingest.py lines 249-258, scripts/build_index.py lines 159-161
WriteMetadataFile ==
    /\ ing.pc = "index_written"
    /\ metaFile' = FileOf(ing.meta)
    /\ ing' = [ing EXCEPT !.pc = "done"]
    /\ UNCHANGED <<rawDir, indexFile>>
    /\ out' = NoOutput
    /\ UNCHANGED apiVars

\* the job is killed, or a write fails, before the run is over
Interrupt ==
    /\ ing.pc \in {"built", "index_written"}
    /\ ing' = [IdleJob EXCEPT !.pc = "interrupted", !.script = ing.script]
    /\ UNCHANGED <<rawDir, indexFile, metaFile>>
    /\ out' = NoOutput
    /\ UNCHANGED apiVars

\* an operator adds, edits or removes a raw document between runs
EditCorpus ==
    /\ ing.pc \in RunOver
    /\ \E f \in FileNames :
       \E t \in CorpusTexts(f) :
        /\ rawDir[f] # t
        /\ rawDir' = [rawDir EXCEPT ![f] = t]
    /\ UNCHANGED <<indexFile, metaFile, ing>>
    /\ out' = NoOutput
    /\ UNCHANGED apiVars

\* ------------------------------------------------------------------------
\* src/retriever.py: construction
\* ------------------------------------------------------------------------

\* RetrievalConfig.top_k
DefaultTopK == 5

\* lines 94-98: the last record of each row_id
_build_rowid_to_meta(meta_rows) ==
    LET ids == {meta_rows[i].row_id : i \in 1..Len(meta_rows)}
    IN  [r \in ids |->
            LET at == {i \in 1..Len(meta_rows) : meta_rows[i].row_id = r}
            IN  meta_rows[CHOOSE i \in at : \A j \in at : j <= i]]

\* line 96 raises KeyError on a record without row_id
HasRowIds(meta_rows) == \A i \in 1..Len(meta_rows) : "row_id" \in DOMAIN meta_rows[i]

NoRetriever == [index |-> <<>>, metadata |-> <<>>, rowid_to_meta |-> <<>>,
                embedding_model |-> FALSE, default_top_k |-> 0]

\* lines 147-172, with __init__ (lines 129-134): the retriever, or the error
\* raised; model_loads tells whether SentenceTransformer(...) of line 161
\* loads the embedding model
from_default(model_loads) ==
    IF ~indexFile.exists \/ ~metaFile.exists
    THEN [error |-> "FileNotFoundError", retriever |-> NoRetriever]
    ELSE IF ~model_loads
    THEN [error |-> "OSError", retriever |-> NoRetriever]
    ELSE IF ~HasRowIds(metaFile.rows)
    THEN [error |-> "KeyError", retriever |-> NoRetriever]
    ELSE [error |-> "none",
          retriever |-> [index |-> indexFile.rows, metadata |-> metaFile.rows,
                         rowid_to_meta |-> _build_rowid_to_meta(metaFile.rows),
                         embedding_model |-> TRUE,
                         default_top_k |-> DefaultTopK]]

\* ------------------------------------------------------------------------
\* src/retriever.py: search
\* ------------------------------------------------------------------------

\* lines 180-187
encode_query(query) == EmbedModel(query)

\* the score FAISS gives an absent slot
AbsentHit == [score |-> -1, row_id |-> -1]

\* line 214, index.search(query_vec, k): the k slots FAISS may return, the
\* best min(k, ntotal) rows and then absent slots; the retriever does not
\* rely on the order of the rows (line 246), so every order is a possible one
index_search(index, query_vec, k) ==
    LET rows == 0 .. (Len(index) - 1)
        score(r) == Dot(query_vec, index[r + 1])
        m == Min(k, Len(index))
        tops == {S \in SUBSET rows :
                    /\ Cardinality(S) = m
                    /\ \A r \in S, q \in rows \ S : score(r) >= score(q)}
        orders(S) == {o \in [1..m -> S] : \A i, j \in 1..m : i # j => o[i] # o[j]}
    IN  UNION {{[i \in 1..k |-> IF i <= m
                                THEN [score |-> score(o[i]), row_id |-> o[i]]
                                ELSE AbsentHit] : o \in orders(S)} : S \in tops}

\* lines 261-274: the text of a chunk, or None
NoneText == <<None>>

\* _load_chunk_text without the lower bound of line 271: a negative chunk_id
\* indexes the list from its end
_load_chunk_text_from_end(doc_id, chunk_id) ==
    IF doc_id \notin FileNames \/ rawDir[doc_id] = NoFile THEN NoneText
    ELSE IF rawDir[doc_id] = Unreadable THEN NoneText
    ELSE LET chunks == split_into_chunks(rawDir[doc_id], DefaultMaxChars,
                                         DefaultOverlapChars)
         IN  IF chunk_id < Len(chunks) /\ -chunk_id <= Len(chunks)
             THEN chunks[(chunk_id % Len(chunks)) + 1]
             ELSE NoneText

\* _load_chunk_text taking chunk_id as a position counted from 1
_load_chunk_text_one_based(doc_id, chunk_id) ==
    IF doc_id \notin FileNames \/ rawDir[doc_id] = NoFile THEN NoneText
    ELSE IF rawDir[doc_id] = Unreadable THEN NoneText
    ELSE LET chunks == split_into_chunks(rawDir[doc_id], DefaultMaxChars,
                                         DefaultOverlapChars)
         IN  IF 1 <= chunk_id /\ chunk_id <= Len(chunks)
             THEN chunks[chunk_id]
             ELSE NoneText

_load_chunk_text(doc_id, chunk_id) ==
    IF doc_id \notin FileNames \/ rawDir[doc_id] = NoFile THEN NoneText
    ELSE IF rawDir[doc_id] = Unreadable THEN NoneText
    ELSE LET chunks == split_into_chunks(rawDir[doc_id], DefaultMaxChars,
                                         DefaultOverlapChars)
         IN  IF 0 <= chunk_id /\ chunk_id < Len(chunks)
             THEN chunks[chunk_id + 1]
             ELSE NoneText

\* lines 230-231, str(meta["doc_id"]) and int(meta["chunk_id"]): the error
\* they raise on a record.  A chunk_id that is not a number (a JSON string
\* int() rejects) is kept under chunk_id_text
MetaError(meta) ==
    IF "doc_id" \notin DOMAIN meta THEN "KeyError"
    ELSE IF "chunk_id" \in DOMAIN meta THEN "none"
    ELSE IF "chunk_id_text" \in DOMAIN meta THEN "ValueError"
    ELSE "KeyError"

\* lines 222-231: the error the loop over the hits raises, that of the first
\* hit it does not skip whose record is malformed
HitsError(retriever, hits) ==
    LET used == {i \in 1..Len(hits) :
                    /\ hits[i].row_id >= 0
                    /\ hits[i].row_id \in DOMAIN retriever.rowid_to_meta
                    /\ MetaError(retriever.rowid_to_meta[hits[i].row_id]) # "none"}
    IN  IF used = {} THEN "none"
        ELSE MetaError(retriever.rowid_to_meta[
                 hits[CHOOSE i \in used : \A j \in used : i <= j].row_id])

\* CollectResults with the sentinel test written row_id <= 0
RECURSIVE CollectResultsSkipsRowZero(_, _, _, _)
CollectResultsSkipsRowZero(retriever, hits, i, with_text) ==
    IF i > Len(hits) THEN <<>>
    ELSE LET hit == hits[i]
             rest == CollectResultsSkipsRowZero(retriever, hits, i + 1, with_text)
         IN  IF hit.row_id <= 0 THEN rest
             ELSE IF hit.row_id \notin DOMAIN retriever.rowid_to_meta THEN rest
             ELSE LET meta == retriever.rowid_to_meta[hit.row_id]
                  IN  <<[doc_id |-> meta.doc_id, chunk_id |-> meta.chunk_id,
                         score |-> hit.score,
                         text |-> IF with_text
                                  THEN _load_chunk_text(meta.doc_id, meta.chunk_id)
                                  ELSE NoneText]>> \o rest

\* lines 222-244: the results of the loop over the hits from position i on
RECURSIVE CollectResults(_, _, _, _)
CollectResults(retriever, hits, i, with_text) ==
    IF i > Len(hits) THEN <<>>
    ELSE LET hit == hits[i]
             rest == CollectResults(retriever, hits, i + 1, with_text)
         IN  IF hit.row_id < 0 THEN rest
             ELSE IF hit.row_id \notin DOMAIN retriever.rowid_to_meta THEN rest
             ELSE LET meta == retriever.rowid_to_meta[hit.row_id]
                  IN  <<[doc_id |-> meta.doc_id, chunk_id |-> meta.chunk_id,
                         score |-> hit.score,
                         text |-> IF with_text
                                  THEN _load_chunk_text(meta.doc_id, meta.chunk_id)
                                  ELSE NoneText]>> \o rest

\* the results as collected, line 247 left out
SortByScoreOmitted(results) == results

\* line 247, results.sort(key=score, reverse=True): stable, by descending
\* score
SortByScore(results) ==
    LET n == Len(results)
        rank(i) == Cardinality({j \in 1..n :
                        \/ results[j].score > results[i].score
                        \/ results[j].score = results[i].score /\ j <= i})
    IN  [r \in 1..n |-> results[CHOOSE i \in 1..n : rank(i) = r]]

\* line 209, k = top_k or self.default_top_k: None and 0 are falsy
EffectiveK(retriever, top_k) ==
    IF top_k.none \/ top_k.val = 0 THEN retriever.default_top_k ELSE top_k.val

\* what a call returns: its results, and whether it encoded the query and
\* queried the index on the way
Returned(results, encoded, queried) ==
    [results |-> results, encoded |-> encoded, queried |-> queried, error |-> "none"]

\* a call that an exception leaves, inside the loop over the hits
SearchRaised(error) ==
    [results |-> <<>>, encoded |-> TRUE, queried |-> TRUE, error |-> error]

\* lines 213-248: the possible outcomes once k > 0 and the index is not empty
SearchHits(retriever, query, k, with_text) ==
    {IF HitsError(retriever, hits) # "none"
     THEN SearchRaised(HitsError(retriever, hits))
     ELSE Returned(SortByScore(CollectResults(retriever, hits, 1, with_text)),
                   TRUE, TRUE) :
        hits \in index_search(retriever.index, encode_query(query), k)}

\* search with the empty-index test of lines 206-207 moved behind the
\* encoding of the query
search_encodes_first(retriever, query, top_k, with_text) ==
    LET k == EffectiveK(retriever, top_k)
    IN  IF k <= 0 THEN {Returned(<<>>, FALSE, FALSE)}
        ELSE IF Len(retriever.index) = 0 THEN {Returned(<<>>, TRUE, FALSE)}
        ELSE SearchHits(retriever, query, k, with_text)

\* lines 206-248: the possible returns of search(query, top_k, with_text)
search(retriever, query, top_k, with_text) ==
    IF Len(retriever.index) = 0 THEN {Returned(<<>>, FALSE, FALSE)}
    ELSE LET k == EffectiveK(retriever, top_k)
         IN  IF k <= 0 THEN {Returned(<<>>, FALSE, FALSE)}
             ELSE SearchHits(retriever, query, k, with_text)

\* ------------------------------------------------------------------------
\* src/cli.py: the search command
\* ------------------------------------------------------------------------

\* lines 41-60, _extract_text on a RetrievedChunk: its text attribute, with
\* None turned into the empty string
_extract_text(result) == IF result.text = NoneText THEN <<>> ELSE result.text

\* lines 72-98; `loaded` tells whether the retriever was constructed, `error`
\* is the exception that ended the command, and `texts` are the texts the
\* command prints its snippets from
cmd_search ==
    /\ \E query \in Queries, top_k \in TopKs, model_loads \in BOOLEAN :
        LET made_now == from_default(model_loads)
        IN  IF made_now.error # "none"
            THEN out' = [op |-> "cli_search", query |-> query, top_k |-> top_k,
                         loaded |-> FALSE, error |-> made_now.error,
                         results |-> <<>>, texts |-> <<>>,
                         encoded |-> FALSE, queried |-> FALSE]
            ELSE \E ret \in search(made_now.retriever, query, top_k, TRUE) :
                    out' = [op |-> "cli_search", query |-> query, top_k |-> top_k,
                            loaded |-> TRUE, error |-> ret.error,
                            results |-> ret.results,
                            texts |-> [i \in 1..Len(ret.results) |->
                                            _extract_text(ret.results[i])],
                            encoded |-> ret.encoded, queried |-> ret.queried]
    /\ UNCHANGED <<rawDir, indexFile, metaFile, ing>>
    /\ UNCHANGED apiVars

\* ------------------------------------------------------------------------
\* src/api/app.py: requests, lazy singletons
\* ------------------------------------------------------------------------

\* the worker threads that run the endpoint functions
Threads == {"t1", "t2"}

\* SearchRequest.top_k, ChatRequest.top_k: any integer
RequestTopKs == {[none |-> FALSE, val |-> v] : v \in -1 .. MaxTopK}

\* llm.provider as the config file may give it
Providers == {"stub", "STUB", "openai"}

\* str.lower() on a provider name
Lower(provider) == IF provider = "STUB" THEN "stub" ELSE provider

\* the value of the environment variable cfg.api_key_env ("" when unset)
ApiKeys == {<<>>, <<"k">>}

NoInstance == [id |-> 0, r |-> NoRetriever]

NoConfig == [loaded |-> FALSE, provider |-> None]

\* a thread: where it is, and the request it serves once the request is read
IdleThread == [pc |-> "idle", endpoint |-> None, query |-> <<>>,
               top_k |-> [none |-> FALSE, val |-> 0], raw_results |-> <<>>,
               context |-> <<>>]

\* str(text), line 139: None becomes the word None
StrOf(text) == IF text = NoneText THEN <<"N", "o", "n", "e">> ELSE text

\* _result_to_search_result reading none of the fields: every lookup of
\* _get_attr_or_key falls to its default
_result_to_search_result_defaults(r) ==
    [doc_id |-> "unknown", chunk_id |-> 0, score |-> 0, text |-> <<>>]

\* lines 130-140
_result_to_search_result(r) ==
    [doc_id |-> r.doc_id, chunk_id |-> r.chunk_id, score |-> r.score,
     text |-> StrOf(r.text)]

\* ------------------------------------------------------------------------
\* src/api/app.py: _call_llm_via_httpx
\* ------------------------------------------------------------------------

\* the content of choices[0].message in a response body
NullContent == [type |-> "null", value |-> <<>>]

Contents == {NullContent, [type |-> "number", value |-> <<>>]}
                \cup {[type |-> "string", value |-> v] :
                        v \in {<<>>, <<" ">>, <<"o", "k", " ">>}}

\* choices[0]: not an object, or an object whose message is absent, null or
\* an object with a content
Choices == {[is_object |-> FALSE, message |-> "absent", content |-> NullContent]}
                \cup {[is_object |-> TRUE, message |-> m, content |-> NullContent] :
                        m \in {"absent", "null"}}
                \cup {[is_object |-> TRUE, message |-> "object", content |-> c] :
                        c \in Contents}

\* the parsed body: not an object, or an object with its list of choices
Bodies == {[is_object |-> FALSE, choices |-> <<>>], [is_object |-> TRUE, choices |-> <<>>]}
                \cup {[is_object |-> TRUE, choices |-> <<c>>] : c \in Choices}

NoBody == [is_object |-> FALSE, choices |-> <<>>]

\* what the POST of line 232 may come to: the request raises, the status is
\* not a success, the body is not JSON, or a JSON body arrives
HttpOutcomes == {[kind |-> k, data |-> NoBody] : k \in {"exception", "http_error", "bad_json"}}
                    \cup {[kind |-> "json", data |-> d] : d \in Bodies}

\* the canned answers all begin with this sentence
StubSentence == "This is a stub chat endpoint response. "

Canned(detail, quoted) == [prefix |-> StubSentence, detail |-> detail, text |-> quoted]

\* an answer, or the exception that leaves the function; with it, whether the
\* call read the API-key environment variable (line 193) and whether it sent
\* the POST (line 232)
Answered(answer, key_read, posted) ==
    [raised |-> FALSE, answer |-> answer, key_read |-> key_read, posted |-> posted]
Raised == [raised |-> TRUE, answer |-> Canned("raised", <<>>), key_read |-> TRUE,
           posted |-> TRUE]

\* lines 234-248: the body of the try block on a parsed body
AnswerFromBody(data) ==
    IF ~data.is_object THEN Canned("error: AttributeError", <<>>)
    ELSE IF Len(data.choices) = 0 THEN Canned("LLM call returned no choices.", <<>>)
    ELSE LET choice == data.choices[1]
         IN  IF ~choice.is_object \/ choice.message = "null"
             THEN Canned("error: AttributeError", <<>>)
             ELSE LET content == IF choice.message = "absent" \/ choice.content.type = "null"
                                 THEN [type |-> "string", value |-> <<>>]
                                 ELSE choice.content
                  IN  IF content.type # "string" \/ Strip(content.value) = <<>>
                      THEN Canned("LLM call returned an empty answer.", <<>>)
                      ELSE [prefix |-> "", detail |-> "content",
                            text |-> Strip(content.value)]

\* _call_llm_via_httpx with raise_for_status() outside the try block
_call_llm_via_httpx_unguarded(provider, api_key, query, http) ==
    IF Lower(provider) = "stub"
    THEN Answered(Canned("Your query was:", query), FALSE, FALSE)
    ELSE IF api_key = <<>> THEN Answered(Canned("API key is missing.", <<>>), TRUE, FALSE)
    ELSE IF http.kind = "http_error" THEN Raised
    ELSE IF http.kind = "exception"
    THEN Answered(Canned("error: ConnectError", <<>>), TRUE, TRUE)
    ELSE IF http.kind = "bad_json"
    THEN Answered(Canned("error: JSONDecodeError", <<>>), TRUE, TRUE)
    ELSE Answered(AnswerFromBody(http.data), TRUE, TRUE)

\* _call_llm_via_httpx with line 186 written cfg.provider == "stub"
_call_llm_via_httpx_case_sensitive(provider, api_key, query, http) ==
    IF provider = "stub"
    THEN Answered(Canned("Your query was:", query), FALSE, FALSE)
    ELSE IF api_key = <<>> THEN Answered(Canned("API key is missing.", <<>>), TRUE, FALSE)
    ELSE IF http.kind = "exception"
    THEN Answered(Canned("error: ConnectError", <<>>), TRUE, TRUE)
    ELSE IF http.kind = "http_error"
    THEN Answered(Canned("error: HTTPStatusError", <<>>), TRUE, TRUE)
    ELSE IF http.kind = "bad_json"
    THEN Answered(Canned("error: JSONDecodeError", <<>>), TRUE, TRUE)
    ELSE Answered(AnswerFromBody(http.data), TRUE, TRUE)

\* lines 183-256
_call_llm_via_httpx(provider, api_key, query, http) ==
    IF Lower(provider) = "stub"
    THEN Answered(Canned("Your query was:", query), FALSE, FALSE)
    ELSE IF api_key = <<>> THEN Answered(Canned("API key is missing.", <<>>), TRUE, FALSE)
    ELSE IF http.kind = "exception"
    THEN Answered(Canned("error: ConnectError", <<>>), TRUE, TRUE)
    ELSE IF http.kind = "http_error"
    THEN Answered(Canned("error: HTTPStatusError", <<>>), TRUE, TRUE)
    ELSE IF http.kind = "bad_json"
    THEN Answered(Canned("error: JSONDecodeError", <<>>), TRUE, TRUE)
    ELSE Answered(AnswerFromBody(http.data), TRUE, TRUE)

\* ------------------------------------------------------------------------
\* src/api/app.py: endpoints
\* ------------------------------------------------------------------------

\* health() that asks for the retriever before it answers
health_loads_retriever ==
    /\ out' = [op |-> "health", status |-> "ok"]
    /\ LET made_now == from_default(TRUE)
       IN  IF _retriever.id = 0 /\ made_now.error = "none"
           THEN /\ _retriever' = [id |-> made + 1, r |-> made_now.retriever]
                /\ made' = made + 1
           ELSE UNCHANGED <<_retriever, made>>
    /\ UNCHANGED <<rawDir, indexFile, metaFile, ing, _app_config, thr, handed>>

\* lines 262-265
health ==
    /\ out' = [op |-> "health", status |-> "ok"]
    /\ UNCHANGED <<rawDir, indexFile, metaFile, ing>>
    /\ UNCHANGED apiVars

\* a POST /search or POST /chat is taken by a worker thread, which enters
\* get_retriever and tests the cached instance (line 87)
get_retriever_test(t) ==
    /\ thr[t].pc = "idle"
    /\ \E endpoint \in {"search", "chat"} :
        thr' = [thr EXCEPT ![t] =
                    [IdleThread EXCEPT !.endpoint = endpoint,
                                       !.pc = IF _retriever.id = 0 THEN "construct"
                                              ELSE "return"]]
    /\ out' = NoOutput
    /\ UNCHANGED <<rawDir, indexFile, metaFile, ing, _retriever, _app_config, made,
                   handed>>

\* get_retriever, line 88: construct and assign, or fail the request with the
\* constructor's error.  The line names VectorRetriever.from_config; the
\* construction classmethod of src/retriever.py is from_default.
get_retriever_construct(t) ==
    /\ thr[t].pc = "construct"
    /\ \E model_loads \in BOOLEAN :
       LET made_now == from_default(model_loads)
       IN  IF made_now.error # "none"
           THEN /\ thr' = [thr EXCEPT ![t] = IdleThread]
                /\ out' = [op |-> thr[t].endpoint, thread |-> t,
                           raised_in |-> "get_retriever", error |-> made_now.error]
                /\ UNCHANGED <<_retriever, made>>
           ELSE /\ _retriever' = [id |-> made + 1, r |-> made_now.retriever]
                /\ made' = made + 1
                /\ thr' = [thr EXCEPT ![t].pc = "return"]
                /\ out' = NoOutput
    /\ UNCHANGED <<rawDir, indexFile, metaFile, ing, _app_config, handed>>

\* get_retriever, line 89, then lines 282-289 of search() or lines 304-305 of
\* chat(): the retrieval for the request's query and top_k
retrieve(t) ==
    /\ thr[t].pc = "return"
    /\ handed' = handed \cup {_retriever.id}
    /\ \E query \in Queries, top_k \in RequestTopKs :
       \E ret \in search(_retriever.r, query, top_k, TRUE) :
        LET results == [i \in 1..Len(ret.results) |->
                            _result_to_search_result(ret.results[i])]
        IN  IF ret.error # "none"
            THEN /\ thr' = [thr EXCEPT ![t] = IdleThread]
                 /\ out' = [op |-> thr[t].endpoint, thread |-> t,
                            raised_in |-> "search", error |-> ret.error]
            ELSE IF thr[t].endpoint = "search"
            THEN /\ thr' = [thr EXCEPT ![t] = IdleThread]
                 /\ out' = [op |-> "search", thread |-> t, error |-> "none",
                            request |-> [query |-> query, top_k |-> top_k],
                            raw |-> ret.results,
                            body |-> [query |-> query, results |-> results]]
            ELSE /\ thr' = [thr EXCEPT ![t].pc = "llm", ![t].query = query,
                                       ![t].top_k = top_k,
                                       ![t].raw_results = ret.results,
                                       ![t].context = results]
                 /\ out' = NoOutput
    /\ UNCHANGED <<rawDir, indexFile, metaFile, ing, _retriever, _app_config, made>>

\* the environments of one LLM call: the key and the outcome of the POST are
\* read only where the code reads them
LlmEnvs(provider) ==
    IF Lower(provider) = "stub"
    THEN {[api_key |-> <<>>, http |-> [kind |-> "none", data |-> NoBody]]}
    ELSE {[api_key |-> <<>>, http |-> [kind |-> "none", data |-> NoBody]]}
            \cup {[api_key |-> <<"k">>, http |-> h] : h \in HttpOutcomes}

\* chat(), lines 307-313, with get_app_config (lines 98-101) and the LLM call
answer_chat(t) ==
    /\ thr[t].pc = "llm"
    /\ \E provider \in Providers :
        LET cfg == IF _app_config.loaded THEN _app_config
                   ELSE [loaded |-> TRUE, provider |-> provider]
        IN  /\ _app_config' = cfg
            /\ \E env \in LlmEnvs(cfg.provider) :
                LET res == _call_llm_via_httpx(cfg.provider, env.api_key,
                                               thr[t].query, env.http)
                IN  out' = [op |-> "chat", thread |-> t,
                            error |-> IF res.raised THEN "HTTPStatusError" ELSE "none",
                            request |-> [query |-> thr[t].query, top_k |-> thr[t].top_k],
                            raw |-> thr[t].raw_results,
                            retrieved |-> thr[t].context,
                            provider |-> cfg.provider, api_key |-> env.api_key,
                            http |-> env.http,
                            key_read |-> res.key_read, posted |-> res.posted,
                            body |-> [query |-> thr[t].query, answer |-> res.answer,
                                      context |-> thr[t].context]]
    /\ thr' = [thr EXCEPT ![t] = IdleThread]
    /\ UNCHANGED <<rawDir, indexFile, metaFile, ing, _retriever, made, handed>>

\* ------------------------------------------------------------------------
\* Specifications
\* ------------------------------------------------------------------------

Corpora == {d \in [FileNames -> UNION {CorpusTexts(f) : f \in FileNames}] :
                \A f \in FileNames : d[f] \in CorpusTexts(f)}

InitApiVars ==
    /\ _retriever = NoInstance
    /\ _app_config = NoConfig
    /\ thr = [t \in Threads |-> IdleThread]
    /\ made = 0
    /\ handed = {}

\* nothing ingested yet, or an empty index put in place by hand
Init ==
    /\ rawDir \in Corpora
    /\ \E pair \in {Missing, FileOf(<<>>)} :
        /\ indexFile = pair
        /\ metaFile = pair
    /\ ing = IdleJob
    /\ out = NoOutput
    /\ InitApiVars

Next ==
    \/ run_ingestion
    \/ build_index_from_dir
    \/ WriteIndexFile
    \/ WriteMetadataFile
    \/ Interrupt
    \/ EditCorpus
    \/ cmd_search

Spec == Init /\ [][Next]_vars

\* the API process starts on what a completed run of src/ingest.py left on
\* disk, on an empty index, on no index at all, or on one of the two files
\* without the other
InitApi ==
    /\ rawDir \in {d \in Corpora : d["b.md"] # NoFile /\ d["a.txt"] = <<"x", " ", "y">>}
    /\ \/ \E pair \in {Missing, FileOf(<<>>)} :
            /\ indexFile = pair
            /\ metaFile = pair
       \/ \E present \in {"index", "metadata"} :
            /\ indexFile = IF present = "index" THEN FileOf(<<>>) ELSE Missing
            /\ metaFile = IF present = "metadata" THEN FileOf(<<>>) ELSE Missing
       \/ \E order \in FileOrders :
            LET chunks == build_chunks_for_corpus(order)
            IN  /\ indexFile = FileOf(embed_chunks(chunks))
                /\ metaFile = FileOf(IngestMetadata(chunks))
    /\ ing = IdleJob
    /\ out = NoOutput
    /\ InitApiVars

NextApi ==
    \/ health
    \/ \E t \in Threads : get_retriever_test(t)
    \/ \E t \in Threads : get_retriever_construct(t)
    \/ \E t \in Threads : retrieve(t)
    \/ \E t \in Threads : answer_chat(t)

SpecApi == InitApi /\ [][NextApi]_vars

\* ------------------------------------------------------------------------
\* The chunkers on their own
\* ------------------------------------------------------------------------

\* the characters of the texts: two letters, a blank and a line feed
ChunkAlphabet == {"x", "y", " ", "\n"}

\* every text of at most MaxTextLen characters, and texts with carriage
\* returns
ChunkTexts ==
    UNION {[1..k -> ChunkAlphabet] : k \in 0..MaxTextLen}
        \cup {<<"x", "\r", "\n", "\r", "\n", "y">>, <<"\r", "\n", "x">>, <<"x", "\r", "y">>}

\* (max_chars, overlap_chars) of split_into_chunks: one paragraph per chunk,
\* and room for two; no overlap, and overlaps below and at a chunk's length
SplitParams == {1, 3, 6} \X {0, 1, 2}

\* (max_chars, overlap) of simple_chunk_text, as --max-chars and --overlap
\* may give them: overlaps below, at and above max_chars
WindowParams == {1, 2, 3} \X {0, 1, 2, 3}

\* src/ingest.py lines 99-145: one call of split_into_chunks
call_split_into_chunks ==
    /\ ing.pc = "idle"
    /\ out = NoOutput
    /\ \E text \in ChunkTexts, params \in SplitParams :
        out' = [op |-> "split_into_chunks", text |-> text, max_chars |-> params[1],
                overlap_chars |-> params[2],
                chunks |-> split_into_chunks(text, params[1], params[2])]
    /\ UNCHANGED <<rawDir, indexFile, metaFile, ing>>
    /\ UNCHANGED apiVars

\* the position of simple_chunk_text once `start` is set: at the body of the
\* loop when start < n (line 74), returned otherwise
AtWindow(job, start, chunks) ==
    [job EXCEPT !.pc = IF start < Len(job.cleaned) THEN "window" ELSE "chunked",
                !.start = start, !.chunks = chunks]

\* scripts/build_index.py lines 68-74: simple_chunk_text is entered
simple_chunk_text_enter ==
    /\ ing.pc = "idle"
    /\ out = NoOutput
    /\ \E text \in ChunkTexts, params \in WindowParams :
        ing' = AtWindow([pc |-> "window", script |-> "build_index", text |-> text,
                         max_chars |-> params[1], overlap |-> params[2],
                         cleaned |-> ReplaceCRLF(text), start |-> 0, windows |-> 0,
                         chunks |-> <<>>],
                        0, <<>>)
    /\ UNCHANGED <<rawDir, indexFile, metaFile, out>>
    /\ UNCHANGED apiVars

\* simple_chunk_text_window with the next window started one character late
simple_chunk_text_window_late ==
    /\ ing.pc = "window"
    /\ ing.windows < MaxWindows
    /\ LET n == Len(ing.cleaned)
           end == Min(ing.start + ing.max_chars, n)
           chunk == Strip(PySlice(ing.cleaned, ing.start, end))
           chunks == IF chunk # <<>> THEN Append(ing.chunks, chunk) ELSE ing.chunks
           counted == [ing EXCEPT !.windows = ing.windows + 1]
       IN  ing' = IF end >= n
                  THEN [counted EXCEPT !.pc = "chunked", !.chunks = chunks]
                  ELSE AtWindow(counted, end - ing.overlap + 1, chunks)
    /\ UNCHANGED <<rawDir, indexFile, metaFile>>
    /\ out' = NoOutput
    /\ UNCHANGED apiVars

\* scripts/build_index.py lines 75-80, and the loop test of line 74: one
\* window of simple_chunk_text
simple_chunk_text_window ==
    /\ ing.pc = "window"
    /\ ing.windows < MaxWindows
    /\ LET n == Len(ing.cleaned)
           end == Min(ing.start + ing.max_chars, n)
           chunk == Strip(PySlice(ing.cleaned, ing.start, end))
           chunks == IF chunk # <<>> THEN Append(ing.chunks, chunk) ELSE ing.chunks
           counted == [ing EXCEPT !.windows = ing.windows + 1]
       IN  ing' = IF end >= n
                  THEN [counted EXCEPT !.pc = "chunked", !.chunks = chunks]
                  ELSE AtWindow(counted, end - ing.overlap, chunks)
    /\ UNCHANGED <<rawDir, indexFile, metaFile>>
    /\ out' = NoOutput
    /\ UNCHANGED apiVars

\* one call of a chunker, followed to its return
InitChunk ==
    /\ rawDir = [f \in FileNames |-> NoFile]
    /\ indexFile = Missing
    /\ metaFile = Missing
    /\ ing = IdleJob
    /\ out = NoOutput
    /\ InitApiVars

NextChunk ==
    \/ call_split_into_chunks
    \/ simple_chunk_text_enter
    \/ simple_chunk_text_window

SpecChunk == InitChunk /\ [][NextChunk]_vars

\* ------------------------------------------------------------------------
\* The hash-bucket encoder
\* ------------------------------------------------------------------------

\* str.split(): the maximal runs of characters that are not whitespace
RECURSIVE Tokens(_)
Tokens(s) ==
    LET blanks == {i \in 1..Len(s) : s[i] \in Whitespace}
    IN  IF blanks = {} THEN (IF s = <<>> THEN <<>> ELSE <<s>>)
        ELSE LET i == CHOOSE j \in blanks : \A h \in blanks : j <= h
                 rest == Tokens(SubSeq(s, i + 1, Len(s)))
             IN  IF i = 1 THEN rest ELSE <<SubSeq(s, 1, i - 1)>> \o rest

\* the code point of a character of the encoder's inputs
CodePoint(c) == IF c = "a" THEN 97 ELSE IF c = "b" THEN 98 ELSE 32

\* a stable hash of a token: a polynomial hash of its code points, the same
\* in every process
RECURSIVE StableHash(_)
StableHash(token) ==
    IF token = <<>> THEN 0
    ELSE (StableHash(SubSeq(token, 1, Len(token) - 1)) * 31
            + CodePoint(token[Len(token)])) % 65536

\* the bucket of a token: its hash modulo the dimension (buckets 1 .. HashDim)
Bucket(token) == (StableHash(token) % HashDim) + 1

\* BucketCounts with a hash that is salted by the token's position in the
\* text
BucketCountsSalted(text) ==
    LET tokens == Tokens(text)
    IN  [d \in 1..HashDim |->
            Cardinality({i \in 1..Len(tokens) :
                            ((StableHash(tokens[i]) + i) % HashDim) + 1 = d})]

\* the row before normalization: how many tokens fell into each bucket
BucketCounts(text) ==
    LET tokens == Tokens(text)
    IN  [d \in 1..HashDim |->
            Cardinality({i \in 1..Len(tokens) : Bucket(tokens[i]) = d})]

RECURSIVE GCD(_, _)
GCD(a, b) == IF b = 0 THEN a ELSE GCD(b, a % b)

RECURSIVE GCDOfRow(_, _)
GCDOfRow(row, d) == IF d = 0 THEN 0 ELSE GCD(row[d], GCDOfRow(row, d - 1))

\* L2 normalization: the unit vector along the counts, written as the
\* smallest integer vector of that direction (two unit vectors are equal
\* exactly when these are); the zero row stays zero
Normalized(row) ==
    LET g == GCDOfRow(row, HashDim)
    IN  IF g = 0 THEN row ELSE [d \in 1..HashDim |-> row[d] \div g]

\* the hash-bucket fallback of encode_texts: one normalized row per string
encode_texts_hash_bucket(texts) ==
    [i \in 1..Len(texts) |-> Normalized(BucketCounts(texts[i]))]

\* the strings handed to the encoder: two letters and a blank
EncodedTexts == UNION {[1..k -> {"a", "b", " "}] : k \in 0..MaxEncodedLen}

\* one call of encode_texts on two strings
call_encode_texts ==
    /\ out = NoOutput
    /\ \E s1 \in EncodedTexts, s2 \in EncodedTexts :
        out' = [op |-> "encode_texts", texts |-> <<s1, s2>>,
                rows |-> encode_texts_hash_bucket(<<s1, s2>>)]
    /\ UNCHANGED <<rawDir, indexFile, metaFile, ing>>
    /\ UNCHANGED apiVars

NextEncode == call_encode_texts

\* one call of the encoder, on the state before any chunker call
SpecEncode == InitChunk /\ [][NextEncode]_vars

\* a raw-documents directory whose files share a stem: two suffixes, and a
\* sub-directory
SameStemFiles == {"a.txt", "a.md", "sub/a.txt"}

\* their contents: a document of one chunk, and one of two windows under
\* --max-chars 2 --overlap 1
SameStemTexts == {NoFile, <<"x">>, <<"x", "y", "x">>}

InitSameStem ==
    /\ rawDir \in [SameStemFiles -> SameStemTexts]
    /\ indexFile = Missing
    /\ metaFile = Missing
    /\ ing = IdleJob
    /\ out = NoOutput
    /\ InitApiVars

NextSameStem ==
    \/ run_ingestion
    \/ build_index_from_dir
    \/ WriteIndexFile
    \/ WriteMetadataFile

\* runs of the two ingestion scripts over such a directory
SpecSameStem == InitSameStem /\ [][NextSameStem]_vars

\* an index and a metadata file put in place by another writer than
\* src/ingest.py: indexes of one and two rows
HandIndexes == {<<<<1, 0>>>>, <<<<1, 1>>, <<0, 1>>>>}

\* the records such a file may hold for row r: a plain record, one with inline
\* text, chunk ids outside the document's chunks, and records that lack
\* doc_id or chunk_id or whose chunk_id is not a number
HandRecords(r) ==
    LET doc_id == IF r = 0 THEN "a.txt" ELSE "b.md"
    IN  {[row_id |-> r, doc_id |-> doc_id, chunk_id |-> c] : c \in {-1, 0, 1}}
            \cup {[row_id |-> r, doc_id |-> doc_id, chunk_id |-> 0, text |-> <<"z">>],
                  [row_id |-> r, chunk_id |-> 0],
                  [row_id |-> r, doc_id |-> doc_id],
                  [row_id |-> r, doc_id |-> doc_id, chunk_id_text |-> <<"a">>]}

HandMetas ==
    {<<>>} \cup {<<m>> : m \in HandRecords(0)}
           \cup {<<m0, m1>> : m0 \in HandRecords(0), m1 \in HandRecords(1)}

\* a raw document is removed, or made unreadable, after the index was built
LoseFile ==
    /\ \E f \in FileNames, t \in {NoFile, Unreadable} :
        /\ rawDir[f] \notin {NoFile, Unreadable}
        /\ rawDir' = [rawDir EXCEPT ![f] = t]
    /\ UNCHANGED <<indexFile, metaFile, ing>>
    /\ out' = NoOutput
    /\ UNCHANGED apiVars

\* the retriever over files it did not write: both raw documents present
InitSearch ==
    /\ rawDir = [f \in FileNames |-> IF f = "a.txt" THEN <<"x", " ", "y">> ELSE <<"y">>]
    /\ \E index \in HandIndexes : indexFile = FileOf(index)
    /\ \E meta \in HandMetas : metaFile = FileOf(meta)
    /\ ing = IdleJob
    /\ out = NoOutput
    /\ InitApiVars

NextSearch ==
    \/ cmd_search
    \/ LoseFile

SpecSearch == InitSearch /\ [][NextSearch]_vars

\* the API process serving one request at a time while raw documents are
\* removed or made unreadable under it
NextLostFile ==
    \/ get_retriever_test("t1")
    \/ get_retriever_construct("t1")
    \/ retrieve("t1")
    \/ answer_chat("t1")
    \/ LoseFile

SpecLostFile == InitApi /\ [][NextLostFile]_vars

\* ------------------------------------------------------------------------
\* Concurrent searches on one retriever
\* ------------------------------------------------------------------------

\* a thread inside VectorRetriever.search: its arguments and its locals
InSearch(pc, query, top_k, with_text, k, hits, ret) ==
    [pc |-> pc, query |-> query, top_k |-> top_k, with_text |-> with_text,
     k |-> k, hits |-> hits, ret |-> ret]

\* search_enter with the k of the call kept on the retriever
\* (self.default_top_k = k)
search_enter_keeps_k(t) ==
    /\ thr[t].pc = "idle"
    /\ \E query \in Queries, top_k \in TopKs, with_text \in BOOLEAN :
        LET k == EffectiveK(_retriever.r, top_k)
        IN  /\ thr' = [thr EXCEPT ![t] =
                    IF Len(_retriever.r.index) = 0 \/ k <= 0
                    THEN InSearch("returned", query, top_k, with_text, 0, <<>>,
                                  Returned(<<>>, FALSE, FALSE))
                    ELSE InSearch("querying", query, top_k, with_text, k, <<>>,
                                  Returned(<<>>, FALSE, FALSE))]
            /\ _retriever' = IF Len(_retriever.r.index) = 0 THEN _retriever
                             ELSE [_retriever EXCEPT !.r.default_top_k = k]
    /\ UNCHANGED <<rawDir, indexFile, metaFile, ing, out, _app_config, made, handed>>

\* src/retriever.py lines 206-211: a thread calls search; the empty-index and
\* k <= 0 returns
search_enter(t) ==
    /\ thr[t].pc = "idle"
    /\ \E query \in Queries, top_k \in TopKs, with_text \in BOOLEAN :
        LET k == EffectiveK(_retriever.r, top_k)
        IN  thr' = [thr EXCEPT ![t] =
                    IF Len(_retriever.r.index) = 0 \/ k <= 0
                    THEN InSearch("returned", query, top_k, with_text, 0, <<>>,
                                  Returned(<<>>, FALSE, FALSE))
                    ELSE InSearch("querying", query, top_k, with_text, k, <<>>,
                                  Returned(<<>>, FALSE, FALSE))]
    /\ UNCHANGED <<rawDir, indexFile, metaFile, ing, out, _retriever, _app_config,
                   made, handed>>

\* lines 213-218: the query is encoded and the index is queried
search_query(t) ==
    /\ thr[t].pc = "querying"
    /\ \E hits \in index_search(_retriever.r.index, encode_query(thr[t].query),
                                 thr[t].k) :
        thr' = [thr EXCEPT ![t].pc = "collecting", ![t].hits = hits]
    /\ UNCHANGED <<rawDir, indexFile, metaFile, ing, out, _retriever, _app_config,
                   made, handed>>

\* lines 220-248: the loop over the hits, the sort and the return, or the
\* exception of a malformed record
search_collect(t) ==
    /\ thr[t].pc = "collecting"
    /\ LET error == HitsError(_retriever.r, thr[t].hits)
           ret == IF error # "none" THEN SearchRaised(error)
                  ELSE Returned(SortByScore(CollectResults(_retriever.r, thr[t].hits,
                                                           1, thr[t].with_text)),
                                TRUE, TRUE)
       IN  thr' = [thr EXCEPT ![t].pc = "returned", ![t].ret = ret]
    /\ UNCHANGED <<rawDir, indexFile, metaFile, ing, out, _retriever, _app_config,
                   made, handed>>

\* the caller has taken the result
search_leave(t) ==
    /\ thr[t].pc = "returned"
    /\ thr' = [thr EXCEPT ![t] = IdleThread]
    /\ UNCHANGED <<rawDir, indexFile, metaFile, ing, out, _retriever, _app_config,
                   made, handed>>

\* the index and metadata pairs the shared retriever is loaded from: what a
\* run of src/ingest.py wrote, an empty pair, and a pair written by hand whose
\* second record may be malformed
SharedPairs ==
    {[index |-> embed_chunks(build_chunks_for_corpus(order)),
      meta |-> IngestMetadata(build_chunks_for_corpus(order))] : order \in FileOrders}
        \cup {[index |-> <<>>, meta |-> <<>>]}
        \cup {[index |-> <<<<1, 1>>, <<0, 1>>>>,
                meta |-> <<[row_id |-> 0, doc_id |-> "a.txt", chunk_id |-> 0], m>>] :
                    m \in HandRecords(1)}

\* one retriever, constructed before the threads start
InitShared ==
    /\ rawDir = [f \in FileNames |-> IF f = "a.txt" THEN <<"x", " ", "y">> ELSE <<"y">>]
    /\ \E pair \in SharedPairs :
        /\ indexFile = FileOf(pair.index)
        /\ metaFile = FileOf(pair.meta)
        /\ _retriever = [id |-> 1,
                         r |-> [index |-> pair.index, metadata |-> pair.meta,
                                rowid_to_meta |-> _build_rowid_to_meta(pair.meta),
                                embedding_model |-> TRUE,
                                default_top_k |-> DefaultTopK]]
    /\ ing = IdleJob
    /\ out = NoOutput
    /\ _app_config = NoConfig
    /\ thr = [t \in Threads |-> IdleThread]
    /\ made = 1
    /\ handed = {1}

NextShared ==
    \/ \E t \in Threads : search_enter(t)
    \/ \E t \in Threads : search_query(t)
    \/ \E t \in Threads : search_collect(t)
    \/ \E t \in Threads : search_leave(t)

SpecShared == InitShared /\ [][NextShared]_vars

\* ------------------------------------------------------------------------
\* Properties of VectorRetriever.search, seen through the CLI's search command
\* ------------------------------------------------------------------------

\* the step just taken was a search on a retriever that loaded
Searched == out.op = "cli_search" /\ out.error = "none"

\* the row ids of the index on disk all have a metadata record
AllRowsDescribed ==
    \A r \in 0 .. (Len(indexFile.rows) - 1) :
        \E i \in 1..Len(metaFile.rows) :
            "row_id" \in DOMAIN metaFile.rows[i] /\ metaFile.rows[i].row_id = r

\* C1: the results of a search are non-increasing in score, whatever order
\* the index returned its rows in.
C1_ResultsNonIncreasing ==
    Searched =>
        \A i \in 1 .. (Len(out.results) - 1) :
            out.results[i].score >= out.results[i + 1].score

C1_Witness ==
    /\ Searched
    /\ Len(out.results) >= 2
    /\ out.results[1].score > out.results[2].score

\* C2: a search with top_k = 0 or a negative top_k returns an empty list.
C2_NonPositiveTopKIsEmpty ==
    (Searched /\ ~out.top_k.none /\ out.top_k.val <= 0) => out.results = <<>>

\* C3 as stated: with top_k = k >= 1 a search returns min(k, ntotal) results:
\* exactly k when the index holds at least k vectors, fewer only when it holds
\* fewer.
C3_ExactlyKResults ==
    (Searched /\ ~out.top_k.none /\ out.top_k.val >= 1) =>
        Len(out.results) = Min(out.top_k.val, Len(indexFile.rows))

\* C3 as amended: with top_k = k >= 1 and a metadata record for every row id
\* of the index, a search returns min(k, ntotal) results.
C3_ExactlyKResultsWhenDescribed ==
    (Searched /\ ~out.top_k.none /\ out.top_k.val >= 1 /\ AllRowsDescribed) =>
        Len(out.results) = Min(out.top_k.val, Len(indexFile.rows))

C3_Witness ==
    /\ Searched
    /\ ~out.top_k.none
    /\ out.top_k.val = 2
    /\ AllRowsDescribed
    /\ Len(indexFile.rows) >= 2
    /\ Len(out.results) = 2

\* C4: on an index of zero vectors a search returns an empty list, for every
\* query and top_k, before the query is encoded or the index is queried.
C4_EmptyIndexReturnsEarly ==
    (Searched /\ Len(indexFile.rows) = 0) =>
        /\ out.results = <<>>
        /\ ~out.encoded
        /\ ~out.queried

C4_Witness ==
    /\ Searched
    /\ Len(indexFile.rows) = 0
    /\ ~out.top_k.none
    /\ out.top_k.val >= 1

\* C5: a metadata file whose records carry no row_id can be loaded into a
\* retriever: when the index file and the metadata file exist, construction
\* raises nothing.
C5_RowIdOptional ==
    (out.op = "cli_search" /\ indexFile.exists /\ metaFile.exists
        /\ ~HasRowIds(metaFile.rows)) =>
        out.error = "none"

\* the search command constructed its retriever and called search
SearchCalled == out.op = "cli_search" /\ out.loaded

\* every record of the metadata file has a doc_id and an integer chunk_id
WellFormed(meta_rows) == \A i \in 1..Len(meta_rows) : MetaError(meta_rows[i]) = "none"

\* the k of the search just made
UsedK == IF out.top_k.none \/ out.top_k.val = 0 THEN DefaultTopK ELSE out.top_k.val

\* the row ids of the index on disk that have a metadata record
DescribedRows ==
    {r \in 0 .. (Len(indexFile.rows) - 1) :
        \E j \in 1..Len(metaFile.rows) : metaFile.rows[j].row_id = r}

\* the text of chunk chunk_id of document doc_id cannot be rebuilt: the file
\* is missing or unreadable, or the document has no such chunk
NotRebuildable(doc_id, chunk_id) ==
    \/ doc_id \notin FileNames
    \/ rawDir[doc_id] \in {NoFile, Unreadable}
    \/ chunk_id < 0
    \/ chunk_id >= Len(split_into_chunks(rawDir[doc_id], DefaultMaxChars,
                                          DefaultOverlapChars))

\* C13: with well-formed metadata records a search does not raise; when k
\* covers the whole index (so that absent slots and rows without a record
\* are among the hits) it returns one result for each row that has a record,
\* with that record's doc_id and chunk_id and the row's score; and a result
\* whose file is missing or unreadable, or whose chunk_id is outside the
\* document's chunks, is returned with text None.
C13_RecoverableConditionsDoNotAbort ==
    (SearchCalled /\ WellFormed(metaFile.rows)) =>
        /\ out.error = "none"
        /\ (UsedK >= Len(indexFile.rows) /\ UsedK > 0) =>
            /\ Len(out.results) = Cardinality(DescribedRows)
            /\ \A r \in DescribedRows :
                \E i \in 1..Len(out.results), j \in 1..Len(metaFile.rows) :
                    /\ metaFile.rows[j].row_id = r
                    /\ out.results[i].doc_id = metaFile.rows[j].doc_id
                    /\ out.results[i].chunk_id = metaFile.rows[j].chunk_id
                    /\ out.results[i].score
                            = Dot(EmbedModel(out.query), indexFile.rows[r + 1])
        /\ \A i \in 1..Len(out.results) :
            NotRebuildable(out.results[i].doc_id, out.results[i].chunk_id)
                => out.results[i].text = NoneText

C13_Witness ==
    /\ SearchCalled
    /\ out.top_k.none
    /\ Len(indexFile.rows) = 2
    /\ Len(metaFile.rows) = 1
    /\ metaFile.rows[1].row_id = 0
    /\ WellFormed(metaFile.rows)
    /\ metaFile.rows[1].chunk_id = -1
    /\ rawDir["a.txt"] \notin {NoFile, Unreadable}
    /\ Len(out.results) = 1
    /\ out.results[1].text = NoneText

\* C14: a result whose metadata record carries inline text exposes that
\* inline text (with_text is requested by the search command).
C14_InlineTextIsExposed ==
    (SearchCalled /\ out.error = "none") =>
        \A i \in 1..Len(out.results), j \in 1..Len(metaFile.rows) :
            (/\ MetaError(metaFile.rows[j]) = "none"
             /\ "text" \in DOMAIN metaFile.rows[j]
             /\ metaFile.rows[j].doc_id = out.results[i].doc_id
             /\ metaFile.rows[j].chunk_id = out.results[i].chunk_id)
                => out.results[i].text = metaFile.rows[j].text

\* the rows of the index on disk whose metadata record is well-formed
WellDescribedRows ==
    {r \in DescribedRows :
        \A j \in 1..Len(metaFile.rows) :
            metaFile.rows[j].row_id = r => MetaError(metaFile.rows[j]) = "none"}

\* C15: a search over metadata that holds a malformed record (no doc_id, no
\* chunk_id, or a chunk_id that is not an integer) does not raise, and when k
\* covers the whole index it returns the hits whose records are well-formed.
C15_MalformedRowIsSkipped ==
    (SearchCalled /\ ~WellFormed(metaFile.rows)) =>
        /\ out.error = "none"
        /\ (UsedK >= Len(indexFile.rows) /\ UsedK > 0) =>
                Len(out.results) = Cardinality(WellDescribedRows)

\* the retriever as the constructor loaded it from the files on disk
Loaded == from_default(TRUE).retriever

\* C25: whatever searches have run or are running on the shared retriever,
\* its index, metadata, row_id map and default_top_k are what the constructor
\* loaded, and every search that returns does so with a result the same call
\* gives on the retriever when run alone.
C25_SearchIsReadOnly ==
    /\ _retriever.r = Loaded
    /\ \A t \in Threads :
        thr[t].pc = "returned" =>
            thr[t].ret \in search(Loaded, thr[t].query, thr[t].top_k, thr[t].with_text)

C25_Witness ==
    /\ thr["t1"].pc = "returned"
    /\ thr["t1"].top_k.none
    /\ Len(thr["t1"].ret.results) = 2
    /\ thr["t2"].pc = "collecting"
    /\ thr["t2"].k = 1
    /\ thr["t2"].query # thr["t1"].query

\* ------------------------------------------------------------------------
\* Properties of the ingestion runs
\* ------------------------------------------------------------------------

\* C6: after a run that completed, both files exist, there are as many
\* metadata lines as index rows, line i describes the chunk whose embedding is
\* row i, and a row_id that is written equals i.
C6_RowAlignment ==
    ing.pc = "done" =>
        /\ indexFile.exists
        /\ metaFile.exists
        /\ Len(metaFile.rows) = Len(indexFile.rows)
        /\ Len(ing.chunks) = Len(indexFile.rows)
        /\ \A i \in 1..Len(metaFile.rows) :
            /\ indexFile.rows[i] = EmbedModel(ing.chunks[i].text)
            /\ metaFile.rows[i].doc_id = ing.chunks[i].doc_id
            /\ metaFile.rows[i].chunk_id = ing.chunks[i].chunk_id
            /\ "row_id" \in DOMAIN metaFile.rows[i] => metaFile.rows[i].row_id = i - 1

C6_Witness ==
    /\ ing.pc = "done"
    /\ ing.script = "ingest"
    /\ Len(indexFile.rows) = 2
    /\ indexFile.rows[1] # indexFile.rows[2]

\* C7: a run over a corpus that yields no chunks leaves the index file and the
\* metadata file as they were.
C7_EmptyCorpusWritesNothing ==
    [][ing'.pc = "no_chunks" => (indexFile' = indexFile /\ metaFile' = metaFile)]_vars

C7_Witness ==
    /\ ing.pc = "no_chunks"
    /\ indexFile.exists
    /\ metaFile.exists
    /\ Len(indexFile.rows) > 0

\* the index on disk is the one a completed run of src/ingest.py wrote, and
\* the raw files still hold what that run read: they yield the run's chunks
IngestedAndUnchanged ==
    /\ ing.pc = "done"
    /\ ing.script = "ingest"
    /\ \E order \in FileOrders : build_chunks_for_corpus(order) = ing.chunks

C26_PairAlignedOnDisk ==
    (indexFile.exists /\ metaFile.exists) => Len(metaFile.rows) = Len(indexFile.rows)

\* the file a metadata record was made from: its source_path when the record
\* has one (scripts/build_index.py), its doc_id otherwise (src/ingest.py)
DocumentOf(record) ==
    IF "source_path" \in DOMAIN record THEN record.source_path ELSE record.doc_id

\* C24: in the metadata a completed run wrote, no two records have the same
\* (doc_id, chunk_id), whatever files the input directory holds, and the
\* chunk_ids of each document are 0, 1, 2, ... in the order of its chunks.
C24_ChunkKeysUnique ==
    ing.pc = "done" =>
        /\ \A i, j \in 1..Len(metaFile.rows) :
                i # j => <<metaFile.rows[i].doc_id, metaFile.rows[i].chunk_id>>
                            # <<metaFile.rows[j].doc_id, metaFile.rows[j].chunk_id>>
        /\ \A i \in 1..Len(metaFile.rows) :
                metaFile.rows[i].chunk_id
                    = Cardinality({j \in 1 .. (i - 1) :
                        DocumentOf(metaFile.rows[j]) = DocumentOf(metaFile.rows[i])})

\* ------------------------------------------------------------------------
\* Properties of the API process
\* ------------------------------------------------------------------------

\* C8: the retriever behind the API is constructed at most once per process,
\* and every caller of get_retriever receives the same instance.
C8_ConstructedAtMostOnce ==
    /\ made <= 1
    /\ Cardinality(handed) <= 1

\* C9: a /health request answers {"status": "ok"} and leaves the lazy
\* singletons as they were: no retriever is constructed and no config loaded.
C9_HealthLoadsNothing ==
    [][out'.op = "health" =>
            /\ out'.status = "ok"
            /\ _retriever' = _retriever
            /\ _app_config' = _app_config
            /\ made' = made]_vars

C9_Witness ==
    /\ out.op = "health"
    /\ _retriever.id = 0
    /\ ~_app_config.loaded
    /\ indexFile.exists
    /\ metaFile.exists

\* the external LLM call failed: no API key, or the POST raised, returned a
\* non-success status or an unparsable body, or the body holds no choice with
\* a non-blank string content
LlmCallFailed(api_key, http) ==
    \/ api_key = <<>>
    \/ http.kind # "json"
    \/ ~http.data.is_object
    \/ Len(http.data.choices) = 0
    \/ LET choice == http.data.choices[1]
       IN  \/ ~choice.is_object
           \/ choice.message # "object"
           \/ choice.content.type # "string"
           \/ Strip(choice.content.value) = <<>>

\* C10: with a provider other than stub, every failure of the external LLM
\* call is answered by a canned string containing 'stub chat endpoint', and
\* /chat still returns the query and the retrieved context.
C10_LlmFailureFallsBack ==
    (out.op = "chat" /\ "provider" \in DOMAIN out /\ Lower(out.provider) # "stub"
        /\ LlmCallFailed(out.api_key, out.http)) =>
        /\ out.error = "none"
        /\ out.body.answer.prefix = StubSentence
        /\ out.body.query = out.request.query
        /\ out.body.context = out.retrieved

C10_Witness ==
    /\ out.op = "chat"
    /\ "provider" \in DOMAIN out
    /\ out.provider = "openai"
    /\ out.api_key # <<>>
    /\ out.http.kind = "http_error"
    /\ out.error = "none"
    /\ Len(out.body.context) >= 1

\* C11: with llm.provider equal to 'stub' in any letter case, a /chat answer
\* comes after the retrieval of the request, carries the retrieved context, is
\* the canned 'stub chat endpoint' string quoting the request's query, and is
\* produced without reading the API-key variable and without an HTTP request.
C11_StubAnswersLocally ==
    [][(out'.op = "chat" /\ "provider" \in DOMAIN out'
            /\ Lower(out'.provider) = "stub") =>
            /\ thr[out'.thread].pc = "llm"
            /\ out'.body.context = thr[out'.thread].context
            /\ out'.error = "none"
            /\ out'.body.answer.prefix = StubSentence
            /\ out'.body.answer.detail = "Your query was:"
            /\ out'.body.answer.text = out'.request.query
            /\ ~out'.key_read
            /\ ~out'.posted]_vars

C11_Witness ==
    /\ out.op = "chat"
    /\ "provider" \in DOMAIN out
    /\ out.provider = "STUB"
    /\ Len(out.body.context) >= 1
    /\ out.body.answer.text = out.request.query
    /\ ~out.key_read

\* a request that failed in get_retriever: the construction raised
ConstructionFailed ==
    /\ out.op \in {"search", "chat"}
    /\ "raised_in" \in DOMAIN out
    /\ out.raised_in = "get_retriever"

\* C16: whenever a request has just failed because the construction of the
\* retriever raised, the cached instance of get_retriever is unset (None).
C16_FailedConstructionLeavesNone == ConstructionFailed => _retriever.id = 0

\* the items of a response: 'results' of /search, 'context' of /chat
ResponseItems == IF out.op = "search" THEN out.body.results ELSE out.body.context

\* C12: the items of a /search or /chat response are, one for one and in
\* order, the results retriever.search returned for the request's query and
\* top_k, each with that result's doc_id, chunk_id, score and text, and the
\* response echoes the request's query.
C12_ResponseMirrorsSearch ==
    (out.op \in {"search", "chat"} /\ "body" \in DOMAIN out) =>
        /\ out.body.query = out.request.query
        /\ \E ret \in search(_retriever.r, out.request.query, out.request.top_k, TRUE) :
                out.raw = ret.results
        /\ Len(ResponseItems) = Len(out.raw)
        /\ \A i \in 1..Len(out.raw) :
            /\ ResponseItems[i].doc_id = out.raw[i].doc_id
            /\ ResponseItems[i].chunk_id = out.raw[i].chunk_id
            /\ ResponseItems[i].score = out.raw[i].score
            /\ out.raw[i].text # NoneText => ResponseItems[i].text = out.raw[i].text

\* C27: a result that search returned without text (text None) appears in the
\* /search and /chat responses with the empty string as its text, the value
\* the CLI's _extract_text gives for that result.
C27_AbsentTextIsEmpty ==
    (out.op \in {"search", "chat"} /\ "body" \in DOMAIN out) =>
        \A i \in 1..Len(out.raw) :
            out.raw[i].text = NoneText =>
                /\ ResponseItems[i].text = <<>>
                /\ ResponseItems[i].text = _extract_text(out.raw[i])

C12_Witness ==
    /\ out.op = "chat"
    /\ "body" \in DOMAIN out
    /\ Len(out.body.context) = 2
    /\ out.body.context[1].doc_id # out.body.context[2].doc_id
    /\ out.body.context[1].score > out.body.context[2].score
    /\ out.body.context[1].text # <<>>
\* ------------------------------------------------------------------------
\* Properties of the chunkers
\* ------------------------------------------------------------------------

\* split_into_chunks has returned; simple_chunk_text has returned
SplitReturned == out.op = "split_into_chunks"
WindowsReturned == ing.pc = "chunked"

\* the characters of s that are not whitespace, in order
NonBlank(s) == SelectSeq(s, LAMBDA c : c \notin Whitespace)

\* the chunks from chunk j on can be laid over the text one after another,
\* each equal to the stretch of text it lies on and starting no later than
\* right after the last position covered so far (`reach`), and the last
\* position of the text is covered
RECURSIVE LaidOver(_, _, _, _)
LaidOver(text, chunks, j, reach) ==
    IF j > Len(chunks) THEN reach = Len(text)
    ELSE \E a \in 1 .. (reach + 1) :
            LET b == a + Len(chunks[j]) - 1
            IN  /\ b <= Len(text)
                /\ SubSeq(text, a, b) = chunks[j]
                /\ LaidOver(text, chunks, j + 1, Max(reach, b))

\* every character position of the text lies in a chunk
CoversEveryCharacter(text, chunks) == LaidOver(text, chunks, 1, 0)

\* every character of the text that is not whitespace lies in a chunk
CoversNonBlank(text, chunks) ==
    LaidOver(NonBlank(text), [j \in 1..Len(chunks) |-> NonBlank(chunks[j])], 1, 0)

\* C17 as stated: the chunks split_into_chunks returns, and those
\* simple_chunk_text returns for 0 <= overlap < max_chars, cover every
\* character position of the text.
C17_ChunksCoverText ==
    /\ SplitReturned => CoversEveryCharacter(out.text, out.chunks)
    /\ (WindowsReturned /\ ing.overlap < ing.max_chars) =>
            CoversEveryCharacter(ing.text, ing.chunks)

\* C17 as amended: the chunks cover, in order, every character of the text
\* that is not whitespace.
C17_ChunksCoverNonBlank ==
    /\ SplitReturned => CoversNonBlank(out.text, out.chunks)
    /\ (WindowsReturned /\ ing.overlap < ing.max_chars) =>
            CoversNonBlank(ing.text, ing.chunks)

C17_Witness ==
    /\ WindowsReturned
    /\ ing.max_chars = 2
    /\ ing.overlap = 1
    /\ ing.text = <<"x", "y", " ", "y", "x">>
    /\ Len(ing.chunks) = 4

\* C18: no chunk a chunker returns is empty after trimming, whatever the text
\* and the parameters, and a text that is empty or all whitespace yields no
\* chunk.
C18_NoBlankChunk ==
    /\ SplitReturned =>
        /\ \A i \in 1..Len(out.chunks) : Strip(out.chunks[i]) # <<>>
        /\ Strip(out.text) = <<>> => out.chunks = <<>>
    /\ WindowsReturned =>
        /\ \A i \in 1..Len(ing.chunks) : Strip(ing.chunks[i]) # <<>>
        /\ Strip(ing.text) = <<>> => ing.chunks = <<>>

C18_Witness ==
    /\ SplitReturned
    /\ out.text = <<" ", "\n", "\n", " ">>
    /\ out.chunks = <<>>

\* C20: in simple_chunk_text every window starts strictly after the start of
\* the window before it, whatever max_chars and overlap are, so that the loop
\* ends.
C20_WindowsAdvance ==
    [][(ing.pc = "window" /\ ing'.pc = "window") => ing'.start > ing.start]_vars

\* C21: a chunk split_into_chunks returns is at most max_chars characters
\* long, the seeded overlap included, unless it is a single paragraph that is
\* itself longer than max_chars; so that when every paragraph is at most
\* max_chars long, every chunk is.
C21_ChunksWithinMaxChars ==
    SplitReturned =>
        \A i \in 1..Len(out.chunks) :
            \/ Len(out.chunks[i]) <= out.max_chars
            \/ \E j \in 1..Len(Paragraphs(out.text)) :
                /\ Paragraphs(out.text)[j] = out.chunks[i]
                /\ Len(Paragraphs(out.text)[j]) > out.max_chars

\* s begins with prefix
StartsWith(s, prefix) ==
    Len(s) >= Len(prefix) /\ SubSeq(s, 1, Len(prefix)) = prefix

\* the chunk is a run of consecutive paragraphs of the text joined by blank
\* lines, with nothing before them
Unseeded(text, chunk) ==
    \E a, b \in 1..Len(Paragraphs(text)) :
        a <= b /\ chunk = JoinBlankLines(SubSeq(Paragraphs(text), a, b))

\* C22: with overlap_chars > 0, the chunk after a closed chunk of at least
\* overlap_chars characters (exactly overlap_chars included) begins with the
\* last overlap_chars characters of the closed chunk, and the chunk after a
\* shorter closed chunk starts with no seed.
C22_OverlapSeedsNextChunk ==
    (SplitReturned /\ out.overlap_chars > 0) =>
        \A i \in 1 .. (Len(out.chunks) - 1) :
            /\ Len(out.chunks[i]) >= out.overlap_chars =>
                StartsWith(out.chunks[i + 1],
                           LastChars(out.chunks[i], out.overlap_chars))
            /\ Len(out.chunks[i]) < out.overlap_chars =>
                Unseeded(out.text, out.chunks[i + 1])

\* ------------------------------------------------------------------------
\* Properties of the hash-bucket encoder
\* ------------------------------------------------------------------------

Encoded == out.op = "encode_texts"

\* how often each token occurs in a string
TokenBag(s) ==
    LET tokens == Tokens(s)
    IN  [t \in {tokens[i] : i \in 1..Len(tokens)} |->
            Cardinality({i \in 1..Len(tokens) : tokens[i] = t})]

\* the bucket counts of two strings are in proportion: they point the same
\* way, or both are zero
Proportional(u, v) ==
    /\ \A i, j \in 1..HashDim : u[i] * v[j] = u[j] * v[i]
    /\ (\A i \in 1..HashDim : u[i] = 0) <=> (\A i \in 1..HashDim : v[i] = 0)

====
